---------------------------- MODULE Spec2Model ----------------------------
(* A model of fbx_to_lua.py: the command-line entry point, the FBX stub   *)
(* and the OBJ -> Lua converter (line parser, fan triangulation, writer). *)
(*                                                                         *)
(* Text is modelled as sequences of one-character strings, so that the    *)
(* splitting and the number parsing of the program are computed.          *)
(* A float is modelled by the integer number of hundredths it denotes     *)
(* (every numeric token of the model has at most two fractional digits),  *)
(* and a formatted number by [digits, dec]: the integer `digits` printed  *)
(* with `dec` digits after the point.                                      *)
EXTENDS Integers, Sequences, FiniteSets, TLC

VARIABLES
    argv,          \* sys.argv[1:], a sequence of paths
    HAS_FBX_SDK,   \* the module-level flag set by the import attempt
    input_exists,  \* os.path.exists(input_file), a fact of the disk
    out_files,     \* the disk: candidate output path -> [exists, content]
    disk0,         \* the disk as it was when the program started
    pc,            \* position of the program
    exit_code,     \* "none" while running, then "0" or "1"
    exc,           \* the uncaught exception, "none" if there is none
    stdout,        \* the messages printed, in order
    output_path,   \* the local output_path of the running converter
    infile,        \* handle on the input file: unopened / open / closed
    outfile,       \* handle on the output file: unopened / open / closed
    read,          \* the lines of the input file read so far
    vertices,      \* list of (x, y, z)
    uvs,           \* list of (u, v)
    faces,         \* list of (tri, tri_uvs)
    wi             \* position of the writer's loop over faces (1-based)

vars == <<argv, HAS_FBX_SDK, input_exists, out_files, disk0, pc, exit_code, exc,
          stdout, output_path, infile, outfile, read, vertices, uvs, faces, wi>>

\* The longest input file considered, in lines.
MaxLines == 3

\* The UV scale of the writer and the constant fourth field of a face entry.
UVScale == 16
Material == 0

---------------------------------------------------------------------------
(* Strings                                                                 *)

None == <<>>

RECURSIVE SplitFrom(_, _, _, _)
\* The scan of str.split(sep): `done` holds the fields closed so far and
\* `cur` the field being read.
SplitFrom(s, sep, done, cur) ==
    IF s = <<>> THEN Append(done, cur)
    ELSE IF Head(s) = sep THEN SplitFrom(Tail(s), sep, Append(done, cur), <<>>)
    ELSE SplitFrom(Tail(s), sep, done, Append(cur, Head(s)))

\* str.split(sep): the fields between occurrences of sep, empty ones kept.
SplitSep(s, sep) == SplitFrom(s, sep, <<>>, <<>>)

\* line.strip().split(): the maximal runs of non-blank characters.
SplitWs(line) == SelectSeq(SplitSep(line, " "), LAMBDA t : t # <<>>)

RECURSIVE JoinSp(_)
\* The text of a line given by its tokens, one blank between two tokens.
JoinSp(toks) ==
    IF toks = <<>> THEN <<>>
    ELSE IF Len(toks) = 1 THEN toks[1]
    ELSE toks[1] \o <<" ">> \o JoinSp(Tail(toks))

UpperChars == <<"A","B","C","D","E","F","G","H","I","J","K","L","M",
                "N","O","P","Q","R","S","T","U","V","W","X","Y","Z">>
LowerChars == <<"a","b","c","d","e","f","g","h","i","j","k","l","m",
                "n","o","p","q","r","s","t","u","v","w","x","y","z">>

\* str.lower()
Lower(s) ==
    [i \in 1..Len(s) |->
        IF \E k \in 1..Len(UpperChars) : UpperChars[k] = s[i]
        THEN LowerChars[CHOOSE k \in 1..Len(UpperChars) : UpperChars[k] = s[i]]
        ELSE s[i]]

\* os.path.basename
Basename(path) == LET ps == SplitSep(path, "/") IN ps[Len(ps)]

\* os.path.splitext: the extension starts at the last dot of the basename,
\* unless only dots precede it there.
SplitExt(path) ==
    LET base == Basename(path)
        dots == {i \in 1..Len(base) : base[i] = "."}
        last == CHOOSE i \in dots : \A j \in dots : j <= i
        n    == Len(path) - Len(base) + last
    IN  IF dots # {} /\ (\E j \in 1..(last - 1) : base[j] # ".")
        THEN [root |-> SubSeq(path, 1, n - 1), ext |-> SubSeq(path, n, Len(path))]
        ELSE [root |-> path, ext |-> <<>>]

DotLua == <<".", "l", "u", "a">>
DotFbx == <<".", "f", "b", "x">>
DotObj == <<".", "o", "b", "j">>

---------------------------------------------------------------------------
(* Numbers                                                                 *)

DigitChars == <<"0","1","2","3","4","5","6","7","8","9">>
IsDigit(c) == \E k \in 1..Len(DigitChars) : DigitChars[k] = c
DigitVal(c) == (CHOOSE k \in 1..Len(DigitChars) : DigitChars[k] = c) - 1
IsDigits(s) == s # <<>> /\ \A i \in 1..Len(s) : IsDigit(s[i])

RECURSIVE NatVal(_)
NatVal(s) ==
    IF s = <<>> THEN 0
    ELSE NatVal(SubSeq(s, 1, Len(s) - 1)) * 10 + DigitVal(s[Len(s)])

Ok(v) == [ok |-> TRUE, val |-> v, exc |-> "none"]
Raised(e) == [ok |-> FALSE, val |-> 0, exc |-> e]

\* int(s): an optional sign and decimal digits, ValueError otherwise.
ParseInt(s) ==
    IF IsDigits(s) THEN Ok(NatVal(s))
    ELSE IF s # <<>> /\ Head(s) \in {"-", "+"} /\ IsDigits(Tail(s))
         THEN Ok((IF Head(s) = "-" THEN -1 ELSE 1) * NatVal(Tail(s)))
    ELSE Raised("ValueError")

\* float(s), in hundredths, for the forms the tokens of the model take:
\* digits, optionally followed by a point and one or two digits. (Python
\* accepts more: a sign, an exponent, inf, nan.) Anything else is ValueError.
ParseFloat(s) ==
    LET fs == SplitSep(s, ".") IN
    IF Len(fs) = 1 /\ IsDigits(fs[1]) THEN Ok(NatVal(fs[1]) * 100)
    ELSE IF Len(fs) = 2 /\ IsDigits(fs[1]) /\ IsDigits(fs[2]) /\ Len(fs[2]) <= 2
         THEN Ok(NatVal(fs[1]) * 100
                 + (IF Len(fs[2]) = 1 THEN 10 ELSE 1) * NatVal(fs[2]))
    ELSE Raised("ValueError")

\* f"{x:.4f}" and f"{x:.2f}" of a float given in hundredths, and a literal.
Fmt4(x) == [digits |-> x * 100, dec |-> 4]
Fmt2(x) == [digits |-> x, dec |-> 2]
Lit(n)  == [digits |-> n, dec |-> 0]

\* seq[k] of a Python list (k 0-based; a negative k counts from the end).
PyIndex(seq, k) ==
    IF 0 <= k /\ k < Len(seq) THEN Ok(seq[k + 1])
    ELSE IF k < 0 /\ -Len(seq) <= k THEN Ok(seq[Len(seq) + k + 1])
    ELSE Raised("IndexError")

---------------------------------------------------------------------------
(* The OBJ line parser                                                     *)

RECURSIVE Floats(_, _, _, _)
\* float(parts[j]), ..., float(parts[k]) evaluated left to right (1-based
\* positions): IndexError on a missing token, ValueError on a bad one.
Floats(parts, j, k, acc) ==
    IF j > k THEN Ok(acc)
    ELSE IF j > Len(parts) THEN Raised("IndexError")
    ELSE LET f == ParseFloat(parts[j]) IN
         IF ~f.ok THEN f ELSE Floats(parts, j + 1, k, Append(acc, f.val))

RECURSIVE FaceIndices(_, _, _, _)
\* The loop over the descriptors of an `f` line: the vertex index of each,
\* and the UV index of each descriptor that has a non-empty second field.
FaceIndices(descs, j, face_verts, face_uvs) ==
    IF j > Len(descs)
    THEN [exc |-> "none", face_verts |-> face_verts, face_uvs |-> face_uvs]
    ELSE LET indices == SplitSep(descs[j], "/")
             v_idx   == ParseInt(indices[1])
             has_uv  == Len(indices) > 1 /\ indices[2] # <<>>
             uv_idx  == ParseInt(indices[2])
         IN  IF ~v_idx.ok
             THEN [exc |-> v_idx.exc, face_verts |-> face_verts, face_uvs |-> face_uvs]
             ELSE IF has_uv /\ ~uv_idx.ok
             THEN [exc |-> uv_idx.exc, face_verts |-> Append(face_verts, v_idx.val),
                   face_uvs |-> face_uvs]
             ELSE FaceIndices(descs, j + 1, Append(face_verts, v_idx.val),
                              IF has_uv THEN Append(face_uvs, uv_idx.val)
                              ELSE face_uvs)

\* The natural fan order, as a converter without the inversion would emit.
TriNatural(face_verts, i) ==
    <<face_verts[1], face_verts[i + 2], face_verts[i + 3]>>

\* Triangle i (0-based) of the fan over face_verts.
Tri(face_verts, i) ==
    <<face_verts[1], face_verts[i + 3], face_verts[i + 2]>>

\* The UV indices in the natural fan order, not permuted with the vertices.
TriUVsNatural(face_uvs, i) ==
    LET a == PyIndex(face_uvs, 0)
        b == PyIndex(face_uvs, i + 1)
        c == PyIndex(face_uvs, i + 2)
    IN  IF ~a.ok THEN a ELSE IF ~b.ok THEN b ELSE IF ~c.ok THEN c
        ELSE Ok(<<a.val, b.val, c.val>>)

\* The UV indices of triangle i: face_uvs[0], face_uvs[i+2], face_uvs[i+1].
TriUVs(face_uvs, i) ==
    LET a == PyIndex(face_uvs, 0)
        b == PyIndex(face_uvs, i + 2)
        c == PyIndex(face_uvs, i + 1)
    IN  IF ~a.ok THEN a ELSE IF ~b.ok THEN b ELSE IF ~c.ok THEN c
        ELSE Ok(<<a.val, b.val, c.val>>)

\* A fan that stops one triangle early: range(len(face_verts) - 3).
FanCountShort(face_verts) ==
    IF Len(face_verts) > 3 THEN Len(face_verts) - 3 ELSE 0

\* range(len(face_verts) - 2)
FanCount(face_verts) ==
    IF Len(face_verts) > 2 THEN Len(face_verts) - 2 ELSE 0

RECURSIVE Fan(_, _, _, _)
\* The triangulation loop from triangle i on: appends (tri, tri_uvs) or
\* (tri, None) to fs, and stops at the first failing UV subscript.
Fan(face_verts, face_uvs, i, fs) ==
    IF i >= FanCount(face_verts) THEN [exc |-> "none", faces |-> fs]
    ELSE IF face_uvs # <<>>
    THEN LET t == TriUVs(face_uvs, i) IN
         IF ~t.ok THEN [exc |-> t.exc, faces |-> fs]
         ELSE Fan(face_verts, face_uvs, i + 1,
                  Append(fs, [tri |-> Tri(face_verts, i), tri_uvs |-> t.val]))
    ELSE Fan(face_verts, face_uvs, i + 1,
             Append(fs, [tri |-> Tri(face_verts, i), tri_uvs |-> None]))

\* One iteration of `for line in f`: the lists after the line, and the
\* exception it raised, if any.
ProcessLine(line, V, U, F) ==
    LET parts == SplitWs(line)
        same  == [exc |-> "none", vertices |-> V, uvs |-> U, faces |-> F]
    IN  IF parts = <<>> THEN same
        ELSE IF parts[1] = <<"v">>
        THEN LET r == Floats(parts, 2, 4, <<>>) IN
             IF r.ok THEN [same EXCEPT !.vertices = Append(V, r.val)]
             ELSE [same EXCEPT !.exc = r.exc]
        ELSE IF parts[1] = <<"v", "t">>
        THEN LET r == Floats(parts, 2, 3, <<>>) IN
             IF r.ok THEN [same EXCEPT !.uvs = Append(U, r.val)]
             ELSE [same EXCEPT !.exc = r.exc]
        ELSE IF parts[1] = <<"f">>
        THEN LET ix == FaceIndices(Tail(parts), 1, <<>>, <<>>) IN
             IF ix.exc # "none" THEN [same EXCEPT !.exc = ix.exc]
             ELSE LET t == Fan(ix.face_verts, ix.face_uvs, 0, F) IN
                  [same EXCEPT !.faces = t.faces, !.exc = t.exc]
        ELSE same

---------------------------------------------------------------------------
(* The Lua writer                                                          *)

Chunk(k, d) == [kind |-> k, data |-> d]

\* The two comment lines of the header, naming the source file.
HeaderChunk(obj_path) == Chunk("header", Basename(obj_path))

\* vec(x, y, z) with four decimals.
VertChunk(v) == Chunk("vert", <<Fmt4(v[1]), Fmt4(v[2]), Fmt4(v[3])>>)

\* vec(u*16, (1-v)*16) with two decimals.
UVVec(uv) == <<Fmt2(uv[1] * UVScale), Fmt2((100 - uv[2]) * UVScale)>>

\* vec(0,0), vec(16,0), vec(16,16)
FallbackUVs ==
    << <<Lit(0), Lit(0)>>, <<Lit(16), Lit(0)>>, <<Lit(16), Lit(16)>> >>

\* uvs[idx - 1]
LookupUV(U, idx) == PyIndex(U, idx - 1)

\* A writer that looks up whenever the face has UV indices, without `and uvs`.
UsesLookupAlways(face, U) == face.tri_uvs # None

\* Whether the writer takes the lookup branch for a face.
UsesLookup(face, U) == face.tri_uvs # None /\ U # <<>>

\* The entry written for one face, or the exception of its UV lookup.
FaceEntry(face, U) ==
    IF UsesLookup(face, U)
    THEN LET uv1 == LookupUV(U, face.tri_uvs[1])
             uv2 == LookupUV(U, face.tri_uvs[2])
             uv3 == LookupUV(U, face.tri_uvs[3])
         IN  IF ~uv1.ok THEN uv1 ELSE IF ~uv2.ok THEN uv2 ELSE IF ~uv3.ok THEN uv3
             ELSE Ok(Chunk("face", [tri |-> face.tri, mat |-> Lit(Material),
                         uv |-> <<UVVec(uv1.val), UVVec(uv2.val), UVVec(uv3.val)>>]))
    ELSE Ok(Chunk("face", [tri |-> face.tri, mat |-> Lit(Material),
                           uv |-> FallbackUVs]))

\* The `return { ... }` trailer, with the fixed name.
TrailerChunk == Chunk("return", <<"m", "e", "s", "h">>)

---------------------------------------------------------------------------
(* The inputs considered                                                   *)

\* Input paths: an OBJ file, an FBX file in two letter cases, an unsupported
\* extension and no extension.
InputPaths ==
    { <<"m", ".", "o", "b", "j">>,
      <<"m", ".", "f", "b", "x">>, <<"m", ".", "F", "b", "X">>,
      <<"m", ".", "t", "x", "t">>, <<"m">> }

\* The explicit output path of a command line that gives one.
OutArg == <<"o", ".", "l", "u", "a">>

\* Every path an output may be written to.
OutPaths == {OutArg} \cup {SplitExt(p).root \o DotLua : p \in InputPaths}

Argvs == {<<>>} \cup {<<p>> : p \in InputPaths} \cup {<<p, OutArg>> : p \in InputPaths}

\* The lines an input file is made of, each given by its tokens.
TokenLines ==
    { \* v 1 0.5 0
      << <<"v">>, <<"1">>, <<"0", ".", "5">>, <<"0">> >>,
      \* v 1 2            (a coordinate is missing)
      << <<"v">>, <<"1">>, <<"2">> >>,
      \* v 1 x 0          (a coordinate is not a number)
      << <<"v">>, <<"1">>, <<"x">>, <<"0">> >>,
      \* vt 0 0
      << <<"v", "t">>, <<"0">>, <<"0">> >>,
      \* vt 0.5 0.25
      << <<"v", "t">>, <<"0", ".", "5">>, <<"0", ".", "2", "5">> >>,
      \* vt 0.5           (a coordinate is missing)
      << <<"v", "t">>, <<"0", ".", "5">> >>,
      \* f 1 2 3 4
      << <<"f">>, <<"1">>, <<"2">>, <<"3">>, <<"4">> >>,
      \* f 1/1 2/2 3/1 4/2
      << <<"f">>, <<"1", "/", "1">>, <<"2", "/", "2">>, <<"3", "/", "1">>,
         <<"4", "/", "2">> >>,
      \* f 1//1 2//1 3//1 (every UV field is empty)
      << <<"f">>, <<"1", "/", "/", "1">>, <<"2", "/", "/", "1">>,
         <<"3", "/", "/", "1">> >>,
      \* f 1/1/1 2//1 3//1 (some UV fields are empty)
      << <<"f">>, <<"1", "/", "1", "/", "1">>, <<"2", "/", "/", "1">>,
         <<"3", "/", "/", "1">> >>,
      \* f                (no descriptor)
      << <<"f">> >>,
      \* f x 2 3          (a vertex index is not an integer)
      << <<"f">>, <<"x">>, <<"2">>, <<"3">> >>,
      \* vn 0 0 1         (a directive the parser does not know)
      << <<"v", "n">>, <<"0">>, <<"0">>, <<"1">> >> }

\* The raw lines: the above, and an empty line.
Lines == {JoinSp(ts) : ts \in TokenLines} \cup {<<>>}

Absent == [exists |-> FALSE, content |-> <<>>]
Old    == [exists |-> TRUE, content |-> <<Chunk("old", <<>>)>>]

Msg(m, a, b) == [msg |-> m, a |-> a, b |-> b]

---------------------------------------------------------------------------
(* The program                                                             *)

Init ==
    /\ argv \in Argvs
    /\ HAS_FBX_SDK \in BOOLEAN
    /\ input_exists \in BOOLEAN
    /\ out_files \in {[p \in OutPaths |-> Absent], [p \in OutPaths |-> Old]}
    /\ disk0 = out_files
    /\ pc = "main"
    /\ exit_code = "none"
    /\ exc = "none"
    /\ stdout = <<>>
    /\ output_path = None
    /\ infile = "unopened"
    /\ outfile = "unopened"
    /\ read = <<>>
    /\ vertices = <<>>
    /\ uvs = <<>>
    /\ faces = <<>>
    /\ wi = 1

input_file  == argv[1]
output_file == IF Len(argv) > 1 THEN argv[2] ELSE None

\* if not output_path: output_path = os.path.splitext(path)[0] + ".lua"
DefaultOutput(path, given) ==
    IF given = None THEN SplitExt(path).root \o DotLua ELSE given

\* sys.exit(1) after printing m
ExitWith(m) ==
    /\ stdout' = Append(stdout, Msg(m, 0, 0))
    /\ exit_code' = "1"
    /\ pc' = "exit"

\* if len(sys.argv) < 2: usage, exit 1
CheckUsage ==
    /\ pc = "main"
    /\ IF Len(argv) < 1
       THEN ExitWith("usage")
       ELSE /\ pc' = "exists"
            /\ UNCHANGED <<stdout, exit_code>>
    /\ UNCHANGED <<argv, HAS_FBX_SDK, input_exists, disk0, out_files, exc, output_path,
                   infile, outfile, read, vertices, uvs, faces, wi>>

\* A main that goes on to the dispatch without the existence check.
CheckExistsSkipped ==
    /\ pc = "exists"
    /\ pc' = "dispatch"
    /\ UNCHANGED <<argv, HAS_FBX_SDK, input_exists, disk0, out_files, exc,
                   output_path, stdout, exit_code,
                   infile, outfile, read, vertices, uvs, faces, wi>>

\* if not os.path.exists(input_file): not found, exit 1
CheckExists ==
    /\ pc = "exists"
    /\ IF ~input_exists
       THEN ExitWith("not_found")
       ELSE /\ pc' = "dispatch"
            /\ UNCHANGED <<stdout, exit_code>>
    /\ UNCHANGED <<argv, HAS_FBX_SDK, input_exists, disk0, out_files, exc, output_path,
                   infile, outfile, read, vertices, uvs, faces, wi>>

\* ext = os.path.splitext(input_file)[1].lower(), and the dispatch on it
Dispatch ==
    /\ pc = "dispatch"
    /\ LET ext == Lower(SplitExt(input_file).ext) IN
       IF ext = DotFbx
       THEN pc' = "convert_fbx" /\ UNCHANGED <<stdout, exit_code>>
       ELSE IF ext = DotObj
       THEN pc' = "convert_obj" /\ UNCHANGED <<stdout, exit_code>>
       ELSE ExitWith("unsupported_format")
    /\ UNCHANGED <<argv, HAS_FBX_SDK, input_exists, disk0, out_files, exc, output_path,
                   infile, outfile, read, vertices, uvs, faces, wi>>

\* A stub that hands the file to the converter when the SDK is present.
ConvertFbxWithSdk ==
    /\ pc = "convert_fbx"
    /\ IF HAS_FBX_SDK
       THEN pc' = "convert_obj" /\ UNCHANGED <<stdout, exit_code, output_path>>
       ELSE /\ output_path' = DefaultOutput(input_file, output_file)
            /\ ExitWith("fbx_not_supported")
    /\ UNCHANGED <<argv, HAS_FBX_SDK, input_exists, disk0, out_files, exc,
                   infile, outfile, read, vertices, uvs, faces, wi>>

\* convert_fbx_to_lua: the output path is computed, the guidance printed,
\* and the process exits with status 1.
ConvertFbx ==
    /\ pc = "convert_fbx"
    /\ output_path' = DefaultOutput(input_file, output_file)
    /\ ExitWith("fbx_not_supported")
    /\ UNCHANGED <<argv, HAS_FBX_SDK, input_exists, disk0, out_files, exc,
                   infile, outfile, read, vertices, uvs, faces, wi>>

\* A converter that opens (and truncates) the output before it parses.
OpenInputAndOutput ==
    /\ pc = "convert_obj"
    /\ output_path' = DefaultOutput(input_file, output_file)
    /\ vertices' = <<>> /\ uvs' = <<>> /\ faces' = <<>>
    /\ infile' = "open"
    /\ outfile' = "open"
    /\ out_files' = [out_files EXCEPT ![output_path'] =
                        [exists |-> TRUE, content |-> <<>>]]
    /\ pc' = "parse"
    /\ UNCHANGED <<argv, HAS_FBX_SDK, input_exists, disk0, exit_code, exc,
                   stdout, read, wi>>

\* convert_obj_to_lua up to `with open(obj_path, 'r') as f`
OpenInput ==
    /\ pc = "convert_obj"
    /\ output_path' = DefaultOutput(input_file, output_file)
    /\ vertices' = <<>> /\ uvs' = <<>> /\ faces' = <<>>
    /\ infile' = "open"
    /\ pc' = "parse"
    /\ UNCHANGED <<argv, HAS_FBX_SDK, input_exists, disk0, out_files, exit_code, exc,
                   stdout, outfile, read, wi>>

\* One iteration of `for line in f` on the next line of the file. An
\* exception leaves the `with` block, which closes the input file, and ends
\* the process with status 1.
ReadLine(line) ==
    /\ pc = "parse"
    /\ Len(read) < MaxLines
    /\ read' = Append(read, line)
    /\ LET r == ProcessLine(line, vertices, uvs, faces) IN
       /\ vertices' = r.vertices
       /\ uvs' = r.uvs
       /\ faces' = r.faces
       /\ IF r.exc = "none"
          THEN UNCHANGED <<pc, exc, exit_code, infile>>
          ELSE /\ exc' = r.exc
               /\ exit_code' = "1"
               /\ infile' = "closed"
               /\ pc' = "exit"
    /\ UNCHANGED <<argv, HAS_FBX_SDK, input_exists, disk0, out_files, stdout,
                   output_path, outfile, wi>>

\* The file has no further line: the `with` block ends and closes it.
EndOfInput ==
    /\ pc = "parse"
    /\ infile' = "closed"
    /\ pc' = "open_output"
    /\ UNCHANGED <<argv, HAS_FBX_SDK, input_exists, disk0, out_files, exit_code, exc,
                   stdout, output_path, outfile, read, vertices, uvs, faces, wi>>

\* with open(output_path, 'w') as f: the file is created or truncated.
OpenOutput ==
    /\ pc = "open_output"
    /\ out_files' = [out_files EXCEPT ![output_path] =
                        [exists |-> TRUE, content |-> <<>>]]
    /\ outfile' = "open"
    /\ pc' = "write_header"
    /\ UNCHANGED <<argv, HAS_FBX_SDK, input_exists, disk0, exit_code, exc, stdout,
                   output_path, infile, read, vertices, uvs, faces, wi>>

Write(chunks) ==
    out_files' = [out_files EXCEPT ![output_path].content = @ \o chunks]

\* The header comments.
WriteHeader ==
    /\ pc = "write_header"
    /\ Write(<<HeaderChunk(input_file)>>)
    /\ pc' = "write_verts"
    /\ UNCHANGED <<argv, HAS_FBX_SDK, input_exists, disk0, exit_code, exc, stdout,
                   output_path, infile, outfile, read, vertices, uvs, faces, wi>>

\* The vertex table, and the opening of the face table.
WriteVerts ==
    /\ pc = "write_verts"
    /\ Write(<<Chunk("verts_open", <<>>)>>
             \o [i \in 1..Len(vertices) |-> VertChunk(vertices[i])]
             \o <<Chunk("verts_close", <<>>), Chunk("faces_open", <<>>)>>)
    /\ wi' = 1
    /\ pc' = "write_faces"
    /\ UNCHANGED <<argv, HAS_FBX_SDK, input_exists, disk0, exit_code, exc, stdout,
                   output_path, infile, outfile, read, vertices, uvs, faces>>

\* One iteration of `for face_data in faces`. A failing UV lookup raises
\* before anything of the entry is written; the `with` block then closes the
\* output file with what was written so far.
WriteFace ==
    /\ pc = "write_faces"
    /\ wi <= Len(faces)
    /\ LET e == FaceEntry(faces[wi], uvs) IN
       IF e.ok
       THEN /\ Write(<<e.val>>)
            /\ wi' = wi + 1
            /\ UNCHANGED <<pc, exc, exit_code, outfile>>
       ELSE /\ exc' = e.exc
            /\ exit_code' = "1"
            /\ outfile' = "closed"
            /\ pc' = "exit"
            /\ UNCHANGED <<out_files, wi>>
    /\ UNCHANGED <<argv, HAS_FBX_SDK, input_exists, disk0, stdout, output_path,
                   infile, read, vertices, uvs, faces>>

\* The end of the face table, the trailer, the closing of the output file,
\* the two report lines, and the end of the script.
WriteTrailer ==
    /\ pc = "write_faces"
    /\ wi > Len(faces)
    /\ Write(<<Chunk("faces_close", <<>>), TrailerChunk>>)
    /\ outfile' = "closed"
    /\ stdout' = Append(stdout, Msg("converted", Len(vertices), Len(faces)))
    /\ exit_code' = "0"
    /\ pc' = "exit"
    /\ UNCHANGED <<argv, HAS_FBX_SDK, input_exists, disk0, exc, output_path, infile,
                   read, vertices, uvs, faces, wi>>

Next ==
    \/ CheckUsage
    \/ CheckExists
    \/ Dispatch
    \/ ConvertFbx
    \/ OpenInput
    \/ \E line \in Lines : ReadLine(line)
    \/ EndOfInput
    \/ OpenOutput
    \/ WriteHeader
    \/ WriteVerts
    \/ WriteFace
    \/ WriteTrailer

Spec == Init /\ [][Next]_vars

---------------------------------------------------------------------------
(* What the input says, read off the lines of the file                     *)

Toks(line) == SplitWs(line)
IsDirective(line, d) == Toks(line) # <<>> /\ Toks(line)[1] = d
FaceDescs(line) == Tail(Toks(line))
Fields(desc) == SplitSep(desc, "/")
HasUVField(desc) == Len(Fields(desc)) >= 2 /\ Fields(desc)[2] # <<>>
HasEmptyUVField(desc) == Len(Fields(desc)) >= 2 /\ Fields(desc)[2] = <<>>
VertexIndexOf(desc) == ParseInt(Fields(desc)[1]).val
UVIndexOf(desc) ==
    IF HasUVField(desc) THEN ParseInt(Fields(desc)[2]).val ELSE 0

\* Whether k numeric tokens follow the directive.
FloatsOK(toks, k) ==
    Len(toks) >= k + 1 /\ \A j \in 2..(k + 1) : ParseFloat(toks[j]).ok

\* What one line of the input says: whether it is an `f` line, which of
\* its descriptors carry a UV index, and its fan triangles in the inverted
\* order, each with the vertex and UV indices of its three descriptors.
LineFacts(line) ==
    LET isF == IsDirective(line, <<"f">>)
        d   == IF isF THEN FaceDescs(line) ELSE <<>>
        tri(a, b, c) ==
            [v |-> <<VertexIndexOf(d[a]), VertexIndexOf(d[b]), VertexIndexOf(d[c])>>,
             u |-> <<UVIndexOf(d[a]), UVIndexOf(d[b]), UVIndexOf(d[c])>>]
    IN  [isF     |-> isF,
         isVT    |-> IsDirective(line, <<"v", "t">>),
         n       |-> Len(d),
         allUV   |-> \A j \in 1..Len(d) : HasUVField(d[j]),
         noUV    |-> \A j \in 1..Len(d) : ~HasUVField(d[j]),
         emptyUV |-> \E j \in 1..Len(d) : HasEmptyUVField(d[j]),
         intV    |-> \A j \in 1..Len(d) : ParseInt(Fields(d[j])[1]).ok,
         malformed |->
             \/ IsDirective(line, <<"v">>) /\ ~FloatsOK(Toks(line), 3)
             \/ IsDirective(line, <<"v", "t">>) /\ ~FloatsOK(Toks(line), 2)
             \/ isF /\ (Len(d) = 0 \/ \E j \in 1..Len(d) :
                                         ~ParseInt(Fields(d[j])[1]).ok),
         tris    |-> IF Len(d) >= 3
                     THEN [i \in 1..(Len(d) - 2) |-> tri(1, i + 2, i + 1)]
                     ELSE <<>>]

\* The facts of every line of the model, computed once.
Facts == [line \in Lines |-> LineFacts(line)]

RECURSIVE SrcAll(_)
\* The fan triangles of all the lines, in file order, each with its line.
SrcAll(lines) ==
    IF lines = <<>> THEN <<>>
    ELSE [k \in 1..Len(Facts[Head(lines)].tris) |->
             [v |-> Facts[Head(lines)].tris[k].v, u |-> Facts[Head(lines)].tris[k].u,
              line |-> Head(lines)]]
         \o SrcAll(Tail(lines))

\* The file written by the run, and its face entries.
Out == out_files[output_path]
FaceChunks(content) == SelectSeq(content, LAMBDA c : c.kind = "face")

Parsing  == pc = "parse"
Parsed   == pc \in {"open_output", "write_header", "write_verts", "write_faces"}
             \/ (pc = "exit" /\ outfile # "unopened")
Finished == pc = "exit" /\ exit_code = "0"

QuadLine == JoinSp(<< <<"f">>, <<"1">>, <<"2">>, <<"3">>, <<"4">> >>)

---------------------------------------------------------------------------
(* Claims                                                                  *)

\* C1: while no line has failed, the face list holds exactly n-2 triangles
\* for each `f` line of n >= 3 descriptors read so far, in file order; and a
\* run that completes has written exactly that many face entries, the k-th
\* entry being the k-th triangle of the list.
C1_TriangleCount ==
    (Parsing \/ Parsed) /\ (exc = "none" \/ outfile # "unopened")
    => LET src == SrcAll(read) IN
       /\ Len(faces) = Len(src)
       /\ Finished
          => LET fc == FaceChunks(Out.content) IN
             /\ Len(fc) = Len(src)
             /\ \A k \in 1..Len(faces) : fc[k].data.tri = faces[k].tri

\* C1 witness: a completed run over two faces of four vertices each.
C1_Witness ==
    /\ Finished
    /\ Len(SrcAll(read)) = 4
    /\ Len(FaceChunks(Out.content)) = 4

\* C2: every stored and every written triangle carries the source vertex
\* indices (V[0], V[i+2], V[i+1]) unchanged, which differs from the natural
\* fan order whenever V[i+1] # V[i+2]; the quad `f 1 2 3 4` alone yields
\* exactly (1,3,2) and (1,4,3).
C2_WindingInverted ==
    (Parsing \/ Parsed) /\ (exc = "none" \/ outfile # "unopened")
    => LET src == SrcAll(read) IN
       /\ Len(faces) = Len(src)
       /\ \A k \in 1..Len(faces) :
             LET v1 == src[k].v[1]
                 v2 == src[k].v[2]
                 v3 == src[k].v[3]
             IN  /\ faces[k].tri = <<v1, v2, v3>>
                 /\ v2 # v3 => faces[k].tri # <<v1, v3, v2>>
       /\ outfile # "unopened"
          => LET fc == FaceChunks(Out.content) IN
             \A k \in 1..Len(fc) : fc[k].data.tri = faces[k].tri
       /\ read = <<QuadLine>>
          => /\ Len(faces) = 2
             /\ <<faces[1].tri, faces[2].tri>> = << <<1, 3, 2>>, <<1, 4, 3>> >>

\* C2 witness: the quad has been written as (1,3,2), (1,4,3).
C2_Witness ==
    /\ Finished
    /\ read = <<QuadLine>>
    /\ FaceChunks(Out.content)[1].data.tri = <<1, 3, 2>>
    /\ FaceChunks(Out.content)[2].data.tri = <<1, 4, 3>>

\* The number of `vt` lines among the lines.
VTCount(lines) == Cardinality({j \in 1..Len(lines) : Facts[lines[j]].isVT})

\* A run that failed while writing a face entry.
WriteFailed == pc = "exit" /\ exc # "none" /\ outfile = "closed"

\* C3: a written face entry whose `f` line carries no UV index, or whose file
\* has no `vt` line, holds the literal vec(0,0), vec(16,0), vec(16,16); and
\* the writer never fails on such a face, as it attempts no UV lookup for it.
C3_UVFallback ==
    outfile # "unopened"
    => LET src == SrcAll(read)
           fc  == FaceChunks(Out.content)
           fallback(k) == Facts[src[k].line].noUV \/ VTCount(read) = 0
       IN  /\ \A k \in 1..Len(fc) :
                fallback(k)
                => fc[k].data.uv = << <<Lit(0), Lit(0)>>, <<Lit(16), Lit(0)>>,
                                      <<Lit(16), Lit(16)>> >>
           /\ WriteFailed => ~fallback(wi)

\* C3 witness: a file without `vt` lines whose face carries UV indices has
\* been written with the fallback triple.
C3_Witness ==
    /\ Finished
    /\ VTCount(read) = 0
    /\ \E j \in 1..Len(read) : Facts[read[j]].isF /\ Facts[read[j]].allUV
                               /\ Facts[read[j]].n >= 3
    /\ Len(FaceChunks(Out.content)) > 0

\* The UV pair written for the float pair uv (in hundredths).
ExpectedVec(uv) ==
    <<[digits |-> 16 * uv[1], dec |-> 2], [digits |-> 16 * (100 - uv[2]), dec |-> 2]>>

\* C6: every triangle of a face whose descriptors all carry a UV index is
\* stored with the UV indices (U[0], U[i+2], U[i+1]) of the descriptors its
\* vertex indices come from; and where these indices are within the UV
\* sequence, the entry written holds, slot by slot, the pair looked up
\* (1-based) for that index, as (u*16, (1-v)*16).
C6_UVPermutation ==
    (Parsing \/ Parsed) /\ (exc = "none" \/ outfile # "unopened")
    => LET src == SrcAll(read) IN
       /\ \A k \in 1..Len(faces) :
             Facts[src[k].line].allUV
             => faces[k].tri = src[k].v /\ faces[k].tri_uvs = src[k].u
       /\ outfile # "unopened"
          => LET fc == FaceChunks(Out.content) IN
             \A k \in 1..Len(fc) :
                Facts[src[k].line].allUV
                /\ (\A s \in 1..3 : src[k].u[s] \in 1..Len(uvs))
                => \A s \in 1..3 : fc[k].data.uv[s] = ExpectedVec(uvs[src[k].u[s]])

\* C6 witness: a face with UV indices 1 and 2 has been written from two
\* different UV coordinates.
C6_Witness ==
    /\ Finished
    /\ Len(uvs) = 2 /\ uvs[1] # uvs[2]
    /\ LET fc == FaceChunks(Out.content) IN
       /\ Len(fc) = 2
       /\ faces[1].tri_uvs = <<1, 1, 2>>
       /\ faces[2].tri_uvs = <<1, 2, 1>>
       /\ fc[1].data.uv = <<ExpectedVec(uvs[1]), ExpectedVec(uvs[1]), ExpectedVec(uvs[2])>>
       /\ fc[2].data.uv = <<ExpectedVec(uvs[1]), ExpectedVec(uvs[2]), ExpectedVec(uvs[1])>>

FbxInputs == {<<"m", ".", "f", "b", "x">>, <<"m", ".", "F", "b", "X">>}
OtherInputs == {<<"m", ".", "t", "x", "t">>, <<"m">>}

\* No file has been read, created or written, and nothing was raised.
NothingTouched ==
    /\ infile = "unopened" /\ outfile = "unopened" /\ read = <<>>
    /\ out_files = disk0 /\ exc = "none"

\* The run has ended with status 1 after printing m and nothing else.
ExitedWith(m) == exit_code = "1" /\ stdout = <<Msg(m, 0, 0)>>

C5_CheckOrder ==
    /\ pc \in {"main", "exists", "dispatch"}
       => ENABLED (CheckUsage \/ CheckExists \/ Dispatch)
    /\ Len(argv) = 0
       => /\ pc \in {"main", "exit"}
          /\ NothingTouched
          /\ pc = "exit" => ExitedWith("usage")
    /\ Len(argv) >= 1 /\ ~input_exists
       => /\ pc \in {"main", "exists", "exit"}
          /\ NothingTouched
          /\ pc = "exit" => ExitedWith("not_found")
    /\ Len(argv) >= 1 /\ input_exists /\ argv[1] \in OtherInputs
       => /\ pc \in {"main", "exists", "dispatch", "exit"}
          /\ NothingTouched
          /\ pc = "exit" => ExitedWith("unsupported_format")

\* C5 witness: an .obj path that does not exist has ended with not-found.
C5_Witness ==
    /\ pc = "exit"
    /\ ~input_exists
    /\ Len(argv) >= 1
    /\ argv[1] = <<"m", ".", "o", "b", "j">>
    /\ ExitedWith("not_found")

IsPrefix(a, b) == Len(a) <= Len(b) /\ SubSeq(b, 1, Len(a)) = a

\* C9: the output file is opened only once the input file is closed, and no
\* line is read after that; a failure raised while parsing happens with the
\* output file unopened and leaves every output file as it was; the three
\* lists only grow, and do not change at all from the moment the output file
\* is opened.
C9_ParseThenWrite ==
    /\ [](outfile # "unopened" \/ out_files # disk0
            => infile = "closed" /\ pc # "parse")
    /\ [](exc # "none" /\ outfile = "unopened" => out_files = disk0)
    /\ [][/\ IsPrefix(vertices, vertices')
          /\ IsPrefix(uvs, uvs')
          /\ IsPrefix(faces, faces')
          /\ outfile' # "unopened"
             => UNCHANGED <<vertices, uvs, faces, read, infile>>
          /\ pc = "parse" /\ exc' # "none"
             => outfile' = "unopened" /\ out_files' = disk0]_vars

\* C9 witness: a line failed to parse and the file that was at the output
\* path is still there, the output never having been opened.
C9_Witness ==
    /\ pc = "exit"
    /\ exc # "none"
    /\ infile = "closed"
    /\ outfile = "unopened"
    /\ Len(read) > 1
    /\ out_files[output_path] = Old

\* C7 (refuted by a bare `f`): every malformed line - a `v` or `vt` line
\* with a missing or non-numeric coordinate, an `f` line with a non-integer
\* vertex index or with no descriptor at all - aborts the run at that line.
C7_ParseErrorsFatal ==
    \A j \in 1..Len(read) :
        Facts[read[j]].malformed
        => pc = "exit" /\ exc # "none" /\ outfile = "unopened" /\ j = Len(read)

\* C8 (refuted by `f 1/1/1 2//1 3//1`): an `f` line of n >= 3 descriptors
\* with integer vertex indices, some or all of them with an empty UV field,
\* does not abort the run and yields its n-2 triangles.
C8_EmptyUVFieldAccepted ==
    \A j \in 1..Len(read) :
        LET f == Facts[read[j]] IN
        f.isF /\ f.n >= 3 /\ f.intV /\ f.emptyUV /\ outfile = "unopened"
        => /\ ~(exc # "none" /\ j = Len(read))
           /\ j = Len(read) /\ Parsing
              => Len(faces) = Len(SrcAll(read))

\* A whole output file: header, vertex table, face table and trailer.
Complete(content) ==
    /\ Len(content) = Len(vertices) + Len(faces) + 6
    /\ content[1].kind = "header"
    /\ content[Len(content)].kind = "return"
    /\ Len(SelectSeq(content, LAMBDA c : c.kind = "vert")) = Len(vertices)
    /\ Len(FaceChunks(content)) = Len(faces)

\* C10 (refuted by a UV index beyond the `vt` lines): a run of the OBJ
\* converter ends either with status 0 and a whole output file, or with a
\* failure and every output file exactly as it was before the run.
C10_AllOrNothing ==
    pc = "exit" /\ infile # "unopened"
    => \/ exit_code = "0" /\ Complete(Out.content)
       \/ exit_code = "1" /\ out_files = disk0

============================================================================
